---- MODULE Spec2Model ----
(***************************************************************************)
(* Model of nuclear_app.py: the Streamlit script that loads the nuclear    *)
(* explosions CSV once (st.cache_data), and on every user interaction      *)
(* re-runs top to bottom: sidebar widgets, filtering, sidebar summary and  *)
(* the selected section.  One action is one script run.                    *)
(*                                                                         *)
(* A DataFrame is a sequence of rows; a row carries its index label (the   *)
(* RangeIndex value read_csv gave it) and the set `na` of source columns   *)
(* whose cell is NaN.  A string cell that is matched by the search is a    *)
(* sequence of one-character strings.                                      *)
(***************************************************************************)
EXTENDS Integers, Sequences, FiniteSets, TLC

VARIABLES
    source,              \* nuclear_explosions.csv as found on disk
    cache,               \* st.cache_data entry of load_data
    data,                \* line 64
    section,             \* line 67
    countries,           \* line 71
    year_range,          \* line 72
    selected_categories, \* line 76
    search,              \* line 79
    filtered_data,       \* lines 83-91
    summary,             \* lines 94-104, "None" when count = 0
    metrics,             \* Overview metrics, lines 127-133
    top5,                \* Details, line 188
    preview,             \* Details, line 192
    name,                \* Feedback form, line 199
    rating,              \* line 200
    comments,            \* line 201
    submitted,           \* line 202
    out,                 \* elements the run put on the page
    status               \* "init", "ok", or the exception that ended the run

vars == <<source, cache, data, section, countries, year_range,
          selected_categories, search, filtered_data, summary, metrics,
          top5, preview, name, rating, comments, submitted, out, status>>

-----------------------------------------------------------------------------
(* Bounds of the model: the longest CSV file of each specification.        *)
MaxRows == 3
MaxRowsLoad == 2
MaxRowsDetails == 11

(* Program constants.                                                      *)
DefaultYearLo == 1960
DefaultYearHi == 1980
Top5N == 5
PreviewN == 10
RatingDefault == 3

DefaultCountries == {"USA", "USSR"}
DefaultCategories == {"All"}
Sections == {"Overview", "Charts", "Map", "Details", "Feedback"}

(* the subset without the test name *)
RequiredColumnsNoName ==
    {"Location.Cordinates.Latitude", "Location.Cordinates.Longitude",
     "Date.Day", "Date.Month", "Date.Year", "WEAPON SOURCE COUNTRY",
     "WEAPON DEPLOYMENT LOCATION", "Location.Cordinates.Depth",
     "Data.Purpose", "Data.Type"}

(* dropna(subset=[...]), lines 28-40 *)
RequiredColumns ==
    {"Location.Cordinates.Latitude", "Location.Cordinates.Longitude",
     "Date.Day", "Date.Month", "Date.Year", "WEAPON SOURCE COUNTRY",
     "WEAPON DEPLOYMENT LOCATION", "Location.Cordinates.Depth",
     "Data.Purpose", "Data.Name", "Data.Type"}

-----------------------------------------------------------------------------
(* The CSV files the model reads.                                          *)

Min(a, b) == IF a <= b THEN a ELSE b

SeqsUpTo(S, n) == UNION {[1..k -> S] : k \in 0..n}

CsvUSA60 ==
    [lat |-> 37, lon |-> -116, day |-> 1, month |-> 7, year |-> 1960,
     country |-> "USA", deploy |-> "Nts", depth |-> 100, purpose |-> "Wr",
     name |-> <<"A", "b">>, type |-> "Shaft", na |-> {}]

CsvUSSR80 ==
    [lat |-> 50, lon |-> 78, day |-> 2, month |-> 8, year |-> 1980,
     country |-> "USSR", deploy |-> "Semi", depth |-> 300, purpose |-> "We",
     name |-> <<"b", ".", "a">>, type |-> "Atmospheric", na |-> {}]

CsvUSA70 ==
    [lat |-> 37, lon |-> -116, day |-> 3, month |-> 9, year |-> 1970,
     country |-> "USA", deploy |-> "Nts", depth |-> 300, purpose |-> "Wr",
     name |-> <<"b", "a">>, type |-> "Shaft", na |-> {}]

WithNa(row, cols) == [row EXCEPT !.na = cols]

(* A file that cannot be read: pd.read_csv or dropna raises.               *)
LoadFailures ==
    {[error |-> "missing", rows |-> <<>>], [error |-> "malformed", rows |-> <<>>]}

(* a file that reads: its data rows *)
CsvFiles(rowset, n) == {[error |-> "none", rows |-> rs] : rs \in SeqsUpTo(rowset, n)}

CsvRows == {CsvUSA60, CsvUSSR80, CsvUSA70}
(* the columns of the file that the script reads *)
CsvColumns ==
    {"Location.Cordinates.Latitude", "Location.Cordinates.Longitude",
     "Date.Day", "Date.Month", "Date.Year", "WEAPON SOURCE COUNTRY",
     "WEAPON DEPLOYMENT LOCATION", "Location.Cordinates.Depth",
     "Data.Purpose", "Data.Name", "Data.Type"}

CsvRowsLoad ==
    {CsvUSA60, CsvUSSR80} \cup {WithNa(CsvUSA70, {c}) : c \in CsvColumns}
CsvRowsDetails ==
    {CsvUSA60, [CsvUSSR80 EXCEPT !.purpose = "Wr", !.type = "Shaft"]}

SourcesFilter == LoadFailures \cup CsvFiles(CsvRows, MaxRows)
SourcesLoad == LoadFailures \cup CsvFiles(CsvRowsLoad, MaxRowsLoad)
SourcesDetails == CsvFiles(CsvRowsDetails, MaxRowsDetails)

(* The files of the whole-session specification: unreadable, header only,  *)
(* and two files every view can draw.                                      *)
Sources ==
    LoadFailures \cup
    {[error |-> "none", rows |-> rs] :
        rs \in {<<>>, <<CsvUSA60, CsvUSSR80>>,
                <<CsvUSSR80, CsvUSA70, CsvUSA60>>}}

-----------------------------------------------------------------------------
(* load_data, lines 23-56                                                  *)

(* pd.DataFrame(): no columns, no rows *)
EmptyDataFrame == [columns |-> FALSE, rows |-> <<>>]

(* pd.read_csv, line 26: rows in file order under a RangeIndex *)
read_csv(src) ==
    [i \in 1..Len(src.rows) |-> [index |-> i - 1, csv |-> src.rows[i]]]

(* df.dropna(subset=...), lines 28-40 *)
dropna(rows, subset) == SelectSeq(rows, LAMBDA r : r.csv.na \cap subset = {})

(* the derived columns, lines 42-51 *)
Derive(r) ==
    [index |-> r.index,
     Latitude |-> r.csv.lat,
     Longitude |-> r.csv.lon,
     Year |-> r.csv.year,
     Country |-> r.csv.country,
     Depth |-> r.csv.depth,
     Location |-> <<r.csv.deploy, ", ", r.csv.country>>,
     Purpose |-> r.csv.purpose,
     TestName |-> r.csv.name,
     TestType |-> r.csv.type,
     Category |-> r.csv.type,
     na |-> r.csv.na]

load_data(src) ==
    IF src.error # "none"
    THEN [df |-> EmptyDataFrame, error |-> TRUE]
    ELSE LET kept == dropna(read_csv(src), RequiredColumns)
         IN  [df |-> [columns |-> TRUE,
                      rows |-> [i \in 1..Len(kept) |-> Derive(kept[i])]],
              error |-> FALSE]

-----------------------------------------------------------------------------
(* Sidebar widgets, lines 67-79                                            *)

(* df[col]: the values of a column *)
Column(rows, col) == {rows[i][col] : i \in 1..Len(rows)}

SetMin(S) == CHOOSE x \in S : \A y \in S : x <= y
SetMax(S) == CHOOSE x \in S : \A y \in S : x >= y

(* options of the country multiselect, line 71 *)
CountryOptions(df) == Column(df.rows, "Country")

(* options of the category multiselect, line 75 *)
category_options(df) == {"All"} \cup Column(df.rows, "Category")

(* The exception that ends the run in lines 71-72, or "none".  A frame     *)
(* without columns has no "Country"; the widgets reject a default that is  *)
(* not among the options or outside the slider's range.                    *)
SidebarException(df) ==
    IF ~df.columns THEN "KeyError"
    ELSE IF ~(DefaultCountries \subseteq CountryOptions(df))
         THEN "StreamlitAPIException"
    ELSE IF ~(/\ SetMin(Column(df.rows, "Year")) <= DefaultYearLo
              /\ DefaultYearHi <= SetMax(Column(df.rows, "Year")))
         THEN "StreamlitAPIException"
    ELSE "none"

(* The values the model moves the year slider to. *)
YearStops == {1960, 1980}

YearRanges(df) ==
    {yr \in YearStops \X YearStops :
        /\ SetMin(Column(df.rows, "Year")) <= yr[1]
        /\ yr[1] <= yr[2]
        /\ yr[2] <= SetMax(Column(df.rows, "Year"))}

(* The texts the model types into the search box. *)
SearchTexts == {<<>>, <<"a", "B">>, <<".">>, <<"b", ".">>, <<"(">>}

-----------------------------------------------------------------------------
(* Filtering, lines 81-91                                                  *)

MaskAnd(m1, m2) == [i \in 1..Len(m1) |-> m1[i] /\ m2[i]]

(* df[mask] *)
RECURSIVE BoolIndex(_, _)
BoolIndex(rows, mask) ==
    IF rows = <<>> THEN <<>>
    ELSE (IF Head(mask) THEN <<Head(rows)>> ELSE <<>>)
             \o BoolIndex(Tail(rows), Tail(mask))

(* Series.isin *)
isin(rows, col, values) == [i \in 1..Len(rows) |-> rows[i][col] \in values]

(* Series.between, inclusive="both" *)
between(rows, col, left, right) ==
    [i \in 1..Len(rows) |-> left <= rows[i][col] /\ rows[i][col] <= right]

(* Filtering with the upper end of the year range left out *)
FilteringYearOpen(rows, cs, yr, cats) ==
    LET years == [i \in 1..Len(rows) |->
                     yr[1] <= rows[i].Year /\ rows[i].Year < yr[2]]
    IN  IF "All" \in cats
        THEN BoolIndex(rows, MaskAnd(isin(rows, "Country", cs), years))
        ELSE BoolIndex(rows, MaskAnd(MaskAnd(isin(rows, "Country", cs), years),
                                     isin(rows, "Category", cats)))

(* Filtering with "All" honoured only when nothing else is selected *)
FilteringAllAlone(rows, cs, yr, cats) ==
    IF cats = {"All"}
    THEN BoolIndex(rows, MaskAnd(isin(rows, "Country", cs),
                                 between(rows, "Year", yr[1], yr[2])))
    ELSE BoolIndex(rows, MaskAnd(MaskAnd(isin(rows, "Country", cs),
                                         between(rows, "Year", yr[1], yr[2])),
                                 isin(rows, "Category", cats)))

(* lines 82-88 *)
Filtering(rows, cs, yr, cats) ==
    IF "All" \in cats
    THEN BoolIndex(rows, MaskAnd(isin(rows, "Country", cs),
                                 between(rows, "Year", yr[1], yr[2])))
    ELSE BoolIndex(rows, MaskAnd(MaskAnd(isin(rows, "Country", cs),
                                         between(rows, "Year", yr[1], yr[2])),
                                 isin(rows, "Category", cats)))

(* re.IGNORECASE on the letters the model uses *)
Lower(c) == CASE c = "A" -> "a" [] c = "B" -> "b" [] OTHER -> c

(* re.compile: of the characters the model types, "(" opens a group that   *)
(* nothing closes, and the pattern is rejected with re.error.              *)
re_compiles(pat) == \A k \in 1..Len(pat) : pat[k] # "("

(* one pattern character against one character of the text: "." is the    *)
(* wildcard, any other character stands for itself, case ignored.          *)
re_atom(a, c) == a = "." \/ Lower(a) = Lower(c)

(* re.search *)
re_search(pat, text) ==
    \E i \in 1..(Len(text) - Len(pat) + 1) :
        \A k \in 1..Len(pat) : re_atom(pat[k], text[i + k - 1])

(* Series.str.contains(pat, case=False, na=False): regex=True by default *)
str_contains(rows, pat) ==
    [i \in 1..Len(rows) |->
        IF "Data.Name" \in rows[i].na THEN FALSE
        ELSE re_search(pat, rows[i].TestName)]

(* lines 90-91; the caller has checked re_compiles *)
SearchFilter(rows, s) ==
    IF s # <<>> THEN BoolIndex(rows, str_contains(rows, s)) ELSE rows

-----------------------------------------------------------------------------
(* Sidebar summary, lines 93-117                                           *)

RECURSIVE SeqSum(_)
SeqSum(xs) == IF xs = <<>> THEN 0 ELSE Head(xs) + SeqSum(Tail(xs))

(* Series.mean(): the exact quotient, kept as numerator and denominator *)
mean(rows, col) ==
    [sum |-> SeqSum([i \in 1..Len(rows) |-> rows[i][col]]), n |-> Len(rows)]

(* Series.value_counts() *)
value_counts(rows, col) ==
    [v \in Column(rows, col) |->
        Cardinality({i \in 1..Len(rows) : rows[i][col] = v})]

(* value_counts().idxmax(): a most frequent value; which of several        *)
(* equally frequent values comes first is left to the sort of value_counts *)
idxmax(vc) == {v \in DOMAIN vc : \A w \in DOMAIN vc : vc[v] >= vc[w]}

NoSummary == [none |-> TRUE]

(* lines 96-104, for the choice tc, tp, tt of the three idxmax results *)
Summarize(rows, tc, tp, tt) ==
    [count |-> Len(rows),
     avg_depth |-> mean(rows, "Depth"),
     min_depth |-> SetMin(Column(rows, "Depth")),
     max_depth |-> SetMax(Column(rows, "Depth")),
     avg_lat |-> mean(rows, "Latitude"),
     avg_lon |-> mean(rows, "Longitude"),
     unique_locations |-> Cardinality(Column(rows, "Location")),
     top_country |-> tc,
     top_purpose |-> tp,
     top_type |-> tt]

-----------------------------------------------------------------------------
(* Section handling, lines 119-210                                         *)

NoMetrics == [none |-> TRUE]

(* Overview, lines 127-133, for the choice ty of the idxmax of the years *)
OverviewMetrics(rows, s, ty) ==
    [max_depth |-> s.max_depth,
     min_depth |-> s.min_depth,
     top_year |-> ty,
     top_year_count |-> SetMax({value_counts(rows, "Year")[y] :
                                   y \in Column(rows, "Year")})]

(* the position of the last row of greatest depth: keep="last" *)
LastLargest(rows) ==
    CHOOSE p \in 1..Len(rows) :
        /\ \A q \in 1..Len(rows) : rows[q].Depth <= rows[p].Depth
        /\ \A q \in (p + 1)..Len(rows) : rows[q].Depth < rows[p].Depth

(* the position of the first row of greatest depth *)
FirstLargest(rows) ==
    CHOOSE p \in 1..Len(rows) :
        /\ \A q \in 1..Len(rows) : rows[q].Depth <= rows[p].Depth
        /\ \A q \in 1..(p - 1) : rows[q].Depth < rows[p].Depth

Without(rows, p) == SubSeq(rows, 1, p - 1) \o SubSeq(rows, p + 1, Len(rows))

(* DataFrame.nlargest(n, "Depth"), keep="first" *)
RECURSIVE nlargest(_, _)
nlargest(rows, n) ==
    IF n = 0 \/ rows = <<>> THEN <<>>
    ELSE LET p == FirstLargest(rows)
         IN  <<rows[p]>> \o nlargest(Without(rows, p), n - 1)

(* DataFrame.head(n) *)
head(rows, n) == SubSeq(rows, 1, Min(n, Len(rows)))

(* df[[...]] of line 188 *)
Top5Columns(rows) ==
    [i \in 1..Len(rows) |->
        [index |-> rows[i].index, Country |-> rows[i].Country,
         Location |-> rows[i].Location, Year |-> rows[i].Year,
         Depth |-> rows[i].Depth, Category |-> rows[i].Category]]

(* df[[...]] of line 192 *)
PreviewColumns(rows) ==
    [i \in 1..Len(rows) |->
        [index |-> rows[i].index, TestName |-> rows[i].TestName,
         TestType |-> rows[i].TestType, Purpose |-> rows[i].Purpose,
         Country |-> rows[i].Country, Year |-> rows[i].Year,
         Category |-> rows[i].Category]]

(* line 188 *)
Top5Table(rows) == Top5Columns(nlargest(rows, Top5N))

(* line 192 *)
PreviewTable(rows) == head(PreviewColumns(rows), PreviewN)

(* What each section puts on the page for a view of `count` rows. *)
OverviewOut(count) ==
    {"overview_header", "overview_count"}
        \cup (IF count > 0 THEN {"overview_metrics"} ELSE {})

(* Charts guarded by count > 0 *)
ChartsOutFromOne(count) ==
    IF count > 0
    THEN {"charts_header", "depth_histogram", "year_barchart"}
    ELSE {"charts_warning"}

ChartsOut(count) ==
    IF count > 1
    THEN {"charts_header", "depth_histogram", "year_barchart"}
    ELSE {"charts_warning"}

MapOut(count) ==
    IF count > 0 THEN {"map_header", "map"} ELSE {"map_warning"}

DetailsOut(count) ==
    IF count > 0
    THEN {"details_header", "top5_table", "preview_table"}
    ELSE {"details_warning"}

(* the echo written outside `if submitted` *)
FeedbackOutUnguarded(sub, nm, cm) ==
    {"feedback_form", "feedback_success", "feedback_rating"}
        \cup (IF nm # "" THEN {"feedback_name"} ELSE {})
        \cup (IF cm # "" THEN {"feedback_comment"} ELSE {})

(* lines 197-210 *)
FeedbackOut(sub, nm, cm) ==
    {"feedback_form"}
        \cup (IF sub
              THEN {"feedback_success", "feedback_rating"}
                       \cup (IF nm # "" THEN {"feedback_name"} ELSE {})
                       \cup (IF cm # "" THEN {"feedback_comment"} ELSE {})
              ELSE {})

SectionOut(sec, count, sub, nm, cm) ==
    CASE sec = "Overview" -> OverviewOut(count)
      [] sec = "Charts" -> ChartsOut(count)
      [] sec = "Map" -> MapOut(count)
      [] sec = "Details" -> DetailsOut(count)
      [] sec = "Feedback" -> FeedbackOut(sub, nm, cm)

(* the summary block guarded by count > 1 *)
SummaryOutOverOne(count) ==
    IF count > 1 THEN {"data_summary"} ELSE {"no_data_warning"}

(* lines 95-117 *)
SummaryOut(count) ==
    IF count > 0 THEN {"data_summary"} ELSE {"no_data_warning"}

(* lines 58-79: banner, title, the load error if any, the sidebar *)
HeaderOut(error) ==
    {"banner", "title"} \cup (IF error THEN {"load_error"} ELSE {})

-----------------------------------------------------------------------------
(* One run of the script, lines 58-210                                     *)

DefaultYearRange == <<DefaultYearLo, DefaultYearHi>>

(* load_data without the cache: the file is read on every run *)
load_data_uncached(c, src) == load_data(src)

(* @st.cache_data, lines 23-24 and 64: the file is read on the first call  *)
(* only; later calls return the stored result.                             *)
load_data_cached(c, src) == IF c.filled THEN c.value ELSE load_data(src)

(* line 95 *)
HasSummary(count) == count > 0

(* The run ends with exception exc before the line that would assign the   *)
(* rest: nothing below the sidebar is computed or drawn.                   *)
Aborted(exc, drawn) ==
    /\ status' = exc
    /\ summary' = NoSummary
    /\ metrics' = NoMetrics
    /\ top5' = <<>>
    /\ preview' = <<>>
    /\ name' = ""
    /\ rating' = RatingDefault
    /\ comments' = ""
    /\ submitted' = FALSE
    /\ out' = drawn \cup {"exception"}

(* lines 93-210 for the view of this run *)
Render(view, sec, sub, nm, rt, cm, drawn) ==
    LET count == Len(view)
    IN  /\ status' = "ok"
        /\ IF HasSummary(count)
           THEN \E tc \in idxmax(value_counts(view, "Country")),
                   tp \in idxmax(value_counts(view, "Purpose")),
                   tt \in idxmax(value_counts(view, "TestType")) :
                    summary' = Summarize(view, tc, tp, tt)
           ELSE summary' = NoSummary
        /\ IF sec = "Overview" /\ count > 0
           THEN \E ty \in idxmax(value_counts(view, "Year")) :
                    metrics' = OverviewMetrics(view, summary', ty)
           ELSE metrics' = NoMetrics
        /\ top5' = IF sec = "Details" /\ count > 0
                   THEN Top5Table(view) ELSE <<>>
        /\ preview' = IF sec = "Details" /\ count > 0
                      THEN PreviewTable(view) ELSE <<>>
        /\ name' = IF sec = "Feedback" THEN nm ELSE ""
        /\ rating' = IF sec = "Feedback" THEN rt ELSE RatingDefault
        /\ comments' = IF sec = "Feedback" THEN cm ELSE ""
        /\ submitted' = (sec = "Feedback" /\ sub)
        /\ out' = drawn \cup SummaryOut(count)
                        \cup SectionOut(sec, count, sub, nm, cm)

(* The script, run with the values the widgets hold: section sec, country  *)
(* selection cs, year range yr, category selection cats, search text s,    *)
(* and the feedback form (sub: the submit button was pressed).             *)
Run(sec, cs, yr, cats, s, sub, nm, rt, cm) ==
    LET loaded == load_data_cached(cache, source)
        df == loaded.df
        exc == SidebarException(df)
        header == HeaderOut(loaded.error) \cup {"navigate"}
    IN  /\ cache' = [filled |-> TRUE, value |-> loaded]
        /\ data' = df
        /\ section' = sec
        /\ UNCHANGED source
        /\ IF exc # "none"
           THEN /\ countries' = DefaultCountries
                /\ year_range' = DefaultYearRange
                /\ selected_categories' = DefaultCategories
                /\ search' = <<>>
                /\ filtered_data' = <<>>
                /\ Aborted(exc, header)
           ELSE /\ countries' = cs
                /\ year_range' = yr
                /\ selected_categories' = cats
                /\ search' = s
                /\ IF s # <<>> /\ ~re_compiles(s)
                   THEN /\ filtered_data' = Filtering(df.rows, cs, yr, cats)
                        /\ Aborted("re.error", header \cup {"filters"})
                   ELSE /\ filtered_data' =
                               SearchFilter(Filtering(df.rows, cs, yr, cats), s)
                        /\ Render(filtered_data', sec, sub, nm, rt, cm,
                                  header \cup {"filters"})

-----------------------------------------------------------------------------
(* The user's interactions; each re-runs the script.                       *)

Names == {"", "Khoa"}
Ratings == {RatingDefault, 4}   \* within the slider's 1..5
Comments == {"", "Great tool"}

(* the sidebar below the radio was drawn by the last run *)
FiltersDrawn == status \in {"ok", "re.error"}

(* the first run of the session: every widget at its default *)
Start ==
    /\ status = "init"
    /\ Run("Overview", DefaultCountries, DefaultYearRange, DefaultCategories,
           <<>>, FALSE, "", RatingDefault, "")

(* a run caused by a widget outside the form: the form keeps its values,   *)
(* the submit button reads False                                           *)
Rerun(sec, cs, yr, cats, s) ==
    Run(sec, cs, yr, cats, s, FALSE, name, rating, comments)

SelectSection(sec) ==
    /\ status # "init"
    /\ sec # section
    /\ Run(sec, countries, year_range, selected_categories, search,
           FALSE, "", RatingDefault, "")

SelectCountries(cs) ==
    /\ FiltersDrawn
    /\ cs # countries
    /\ cs \subseteq CountryOptions(data)
    /\ Rerun(section, cs, year_range, selected_categories, search)

SelectYearRange(yr) ==
    /\ FiltersDrawn
    /\ yr # year_range
    /\ yr \in YearRanges(data)
    /\ Rerun(section, countries, yr, selected_categories, search)

SelectCategories(cats) ==
    /\ FiltersDrawn
    /\ cats # selected_categories
    /\ cats \subseteq category_options(data)
    /\ Rerun(section, countries, year_range, cats, search)

TypeSearch(s) ==
    /\ FiltersDrawn
    /\ s # search
    /\ Rerun(section, countries, year_range, selected_categories, s)

SubmitFeedback(nm, rt, cm) ==
    /\ status = "ok"
    /\ section = "Feedback"
    /\ Run(section, countries, year_range, selected_categories, search,
           TRUE, nm, rt, cm)

(* the CSV file is deleted while the session goes on *)
FileRemoved ==
    /\ status # "init"
    /\ source.error = "none"
    /\ source' = [error |-> "missing", rows |-> <<>>]
    /\ UNCHANGED <<cache, data, section, countries, year_range,
                   selected_categories, search, filtered_data, summary,
                   metrics, top5, preview, name, rating, comments, submitted,
                   out, status>>

-----------------------------------------------------------------------------
(* Specifications                                                          *)

InitWith(srcs) ==
    /\ source \in srcs
    /\ cache = [filled |-> FALSE, value |-> [df |-> EmptyDataFrame, error |-> FALSE]]
    /\ data = EmptyDataFrame
    /\ section = "Overview"
    /\ countries = DefaultCountries
    /\ year_range = DefaultYearRange
    /\ selected_categories = DefaultCategories
    /\ search = <<>>
    /\ filtered_data = <<>>
    /\ summary = NoSummary
    /\ metrics = NoMetrics
    /\ top5 = <<>>
    /\ preview = <<>>
    /\ name = ""
    /\ rating = RatingDefault
    /\ comments = ""
    /\ submitted = FALSE
    /\ out = {}
    /\ status = "init"

Init == InitWith(Sources)

Next ==
    \/ Start
    \/ \E sec \in Sections : SelectSection(sec)
    \/ \E cs \in SUBSET CountryOptions(data) : SelectCountries(cs)
    \/ \E yr \in YearStops \X YearStops : SelectYearRange(yr)
    \/ \E cats \in SUBSET {"All", "Shaft"} : SelectCategories(cats)
    \/ \E s \in {<<>>, <<".">>, <<"(">>} : TypeSearch(s)
    \/ \E nm \in Names, rt \in Ratings, cm \in Comments :
           SubmitFeedback(nm, rt, cm)
    \/ FileRemoved

Spec == Init /\ [][Next]_vars

(* The filter widgets alone, over every file of at most MaxRows rows.      *)
InitFilter == InitWith(SourcesFilter)

NextFilter ==
    \/ Start
    \/ \E cs \in SUBSET CountryOptions(data) : SelectCountries(cs)
    \/ \E yr \in YearStops \X YearStops : SelectYearRange(yr)
    \/ \E cats \in SUBSET category_options(data) : SelectCategories(cats)
    \/ \E s \in SearchTexts : TypeSearch(s)

SpecFilter == InitFilter /\ [][NextFilter]_vars

(* The load, over files whose rows miss any one required cell.             *)
InitLoad == InitWith(SourcesLoad)

NextLoad ==
    \/ Start
    \/ \E sec \in Sections : SelectSection(sec)

SpecLoad == InitLoad /\ [][NextLoad]_vars

(* The Details view, over files longer than both of its tables.            *)
InitDetails == InitWith(SourcesDetails)

NextDetails ==
    \/ Start
    \/ \E sec \in {"Overview", "Details"} : SelectSection(sec)

SpecDetails == InitDetails /\ [][NextDetails]_vars

-----------------------------------------------------------------------------
(* Properties                                                              *)

Records(rows) == {rows[i] : i \in 1..Len(rows)}
Indexes(rows) == {rows[i].index : i \in 1..Len(rows)}

(* rows is a subsequence of all: rows of all, in the order of all *)
InOriginalOrder(rows, all) ==
    /\ Records(rows) \subseteq Records(all)
    /\ \A i \in 1..(Len(rows) - 1) : rows[i].index < rows[i + 1].index

(* the country, year and category conditions of the filter *)
Matches(r, cs, yr, cats) ==
    /\ r.Country \in cs
    /\ yr[1] <= r.Year
    /\ r.Year <= yr[2]
    /\ ("All" \in cats \/ r.Category \in cats)

(* s occurs in text as a contiguous substring, case ignored *)
LiteralContains(s, text) ==
    \E i \in 1..(Len(text) - Len(s) + 1) :
        \A k \in 1..Len(s) : Lower(s[k]) = Lower(text[i + k - 1])

(* C1: with an empty search text the view is exactly the rows of the       *)
(* Dataset, in row order, whose country is selected, whose year lies in    *)
(* the closed year range, and whose category is selected unless "All" is;  *)
(* no country selected gives no row.                                       *)
C1_FilterContract ==
    (status = "ok" /\ search = <<>>) =>
        /\ InOriginalOrder(filtered_data, data.rows)
        /\ \A j \in 1..Len(data.rows) :
               data.rows[j] \in Records(filtered_data)
                   <=> Matches(data.rows[j], countries, year_range,
                               selected_categories)
        /\ (countries = {} => filtered_data = <<>>)

C1_Witness ==
    /\ status = "ok"
    /\ search = <<>>
    /\ "All" \in selected_categories
    /\ selected_categories # {"All"}
    /\ year_range = <<DefaultYearLo, DefaultYearLo>>
    /\ Len(filtered_data) > 0
    /\ Len(filtered_data) < Len(data.rows)
    /\ \E j \in 1..Len(data.rows) :
           /\ data.rows[j] \in Records(filtered_data)
           /\ data.rows[j].Category \notin selected_categories

(* C2: when the file cannot be read, the Dataset is empty, the error is    *)
(* shown, and the run goes on to its end without an exception.             *)
C2_LoadFailureDoesNotHalt ==
    (cache.filled /\ cache.value.error) =>
        /\ data = EmptyDataFrame
        /\ "load_error" \in out
        /\ status = "ok"
        /\ "exception" \notin out

(* C3: with a search text, a row that passes the other three conditions    *)
(* is in the view exactly when the text occurs literally, case ignored,    *)
(* in its test name.                                                       *)
C3_SearchIsLiteralSubstring ==
    (status = "ok" /\ search # <<>>) =>
        \A j \in 1..Len(data.rows) :
            Matches(data.rows[j], countries, year_range, selected_categories)
                => (data.rows[j] \in Records(filtered_data)
                        <=> LiteralContains(search, data.rows[j].TestName))

(* C4: the summary exists exactly when the view has a row; without one     *)
(* only the warning is shown, with one every aggregate is there and the    *)
(* count is the number of rows of the view.                                *)
C4_SummaryIffNonEmpty ==
    status = "ok" =>
        /\ (summary # NoSummary) <=> (Len(filtered_data) > 0)
        /\ ("data_summary" \in out) <=> (Len(filtered_data) > 0)
        /\ ("no_data_warning" \in out) <=> (Len(filtered_data) = 0)
        /\ Len(filtered_data) > 0 =>
               /\ DOMAIN summary =
                      {"count", "avg_depth", "min_depth", "max_depth",
                       "avg_lat", "avg_lon", "unique_locations",
                       "top_country", "top_purpose", "top_type"}
               /\ summary.count = Len(filtered_data)
               /\ summary.avg_depth.n = Len(filtered_data)
               /\ summary.min_depth \in Column(filtered_data, "Depth")
               /\ summary.max_depth \in Column(filtered_data, "Depth")
               /\ summary.top_country \in Column(filtered_data, "Country")

C4_Witness ==
    /\ status = "ok"
    /\ Len(data.rows) > 0
    /\ Len(filtered_data) = 0
    /\ summary = NoSummary
    /\ "no_data_warning" \in out

(* C5: Charts draws its two charts iff the view has more than one row,     *)
(* Map and Details draw iff it has a row, Overview shows its metrics iff   *)
(* it has a row; otherwise the section shows its notice and computes       *)
(* nothing.                                                                *)
C5_SectionThresholds ==
    status = "ok" =>
        LET n == Len(filtered_data)
        IN  /\ section = "Charts" =>
                /\ ({"depth_histogram", "year_barchart"} \subseteq out) <=> (n > 1)
                /\ ({"depth_histogram", "year_barchart"} \cap out # {}) <=> (n > 1)
                /\ ("charts_warning" \in out) <=> (n <= 1)
            /\ section = "Map" =>
                /\ ("map" \in out) <=> (n >= 1)
                /\ ("map_warning" \in out) <=> (n = 0)
            /\ section = "Details" =>
                /\ ({"top5_table", "preview_table"} \subseteq out) <=> (n >= 1)
                /\ ({"top5_table", "preview_table"} \cap out # {}) <=> (n >= 1)
                /\ ("details_warning" \in out) <=> (n = 0)
                /\ (top5 # <<>>) <=> (n >= 1)
                /\ (preview # <<>>) <=> (n >= 1)
            /\ section = "Overview" =>
                /\ ("overview_metrics" \in out) <=> (n >= 1)
                /\ (metrics # NoMetrics) <=> (n >= 1)
            /\ section # "Details" => (top5 = <<>> /\ preview = <<>>)
            /\ section # "Overview" => metrics = NoMetrics

C5_Witness ==
    /\ status = "ok"
    /\ section = "Charts"
    /\ Len(filtered_data) = 1
    /\ "charts_warning" \in out
    /\ "depth_histogram" \notin out

(* criteria A within criteria B, the search condition as C6 states it *)
NarrowerAsStated(csA, yrA, catsA, sA, csB, yrB, catsB, sB) ==
    /\ csA \subseteq csB
    /\ catsA \subseteq catsB
    /\ yrB[1] <= yrA[1]
    /\ yrA[2] <= yrB[2]
    /\ (sA # <<>> => sB = sA)

(* C6 as stated: between two runs A and B over the same Dataset, if A's    *)
(* countries and categories are subsets of B's, A's year range lies in     *)
(* B's, and A's search, when not empty, is B's search, then every row of   *)
(* A's view is a row of B's view.                                          *)
C6_MonotoneAsStated ==
    [][(status = "ok" /\ status' = "ok") =>
          /\ NarrowerAsStated(countries, year_range, selected_categories,
                              search, countries', year_range',
                              selected_categories', search')
                 => Records(filtered_data) \subseteq Records(filtered_data')
          /\ NarrowerAsStated(countries', year_range', selected_categories',
                              search', countries, year_range,
                              selected_categories, search)
                 => Records(filtered_data') \subseteq Records(filtered_data)
      ]_vars

(* criteria A within criteria B: B searches only for what A searches for *)
Narrower(csA, yrA, catsA, sA, csB, yrB, catsB, sB) ==
    /\ csA \subseteq csB
    /\ catsA \subseteq catsB
    /\ yrB[1] <= yrA[1]
    /\ yrA[2] <= yrB[2]
    /\ (sB # <<>> => sA = sB)

(* C6 amended: the same, with the search condition turned round: B's       *)
(* search, when not empty, is A's search.  A run that drew A's view draws  *)
(* B's view too.                                                           *)
C6_Monotone ==
    [][/\ (status = "ok" /\ Narrower(countries, year_range,
                                     selected_categories, search, countries',
                                     year_range', selected_categories',
                                     search'))
              => /\ status' = "ok"
                 /\ Records(filtered_data) \subseteq Records(filtered_data')
       /\ (status' = "ok" /\ status # "init"
             /\ Narrower(countries', year_range', selected_categories',
                         search', countries, year_range, selected_categories,
                         search))
              => /\ status = "ok"
                 /\ Records(filtered_data') \subseteq Records(filtered_data)
      ]_vars

C6_Witness ==
    /\ status = "ok"
    /\ search = <<"a", "B">>
    /\ countries = {"USA"}
    /\ selected_categories = {"All", "Shaft"}
    /\ year_range = <<DefaultYearLo, DefaultYearLo>>
    /\ Len(filtered_data) > 0
    /\ Len(filtered_data) < Len(data.rows)

(* the eleven required fields, by their source column *)
ElevenRequiredFields ==
    {"Location.Cordinates.Latitude", "Location.Cordinates.Longitude",
     "Date.Day", "Date.Month", "Date.Year", "WEAPON SOURCE COUNTRY",
     "WEAPON DEPLOYMENT LOCATION", "Location.Cordinates.Depth",
     "Data.Purpose", "Data.Name", "Data.Type"}

(* C7: a row of the file is in the Dataset exactly when none of its eleven *)
(* required cells is null; every row of the Dataset has them all, carries  *)
(* the cells of its file row, and the rows keep the order of the file.     *)
C7_LoadCompleteness ==
    (status # "init" /\ source.error = "none") =>
        /\ \A i \in 1..Len(source.rows) :
               (i - 1) \in Indexes(data.rows)
                   <=> source.rows[i].na \cap ElevenRequiredFields = {}
        /\ Indexes(data.rows) \subseteq 0..(Len(source.rows) - 1)
        /\ \A j \in 1..Len(data.rows) :
               /\ data.rows[j].na \cap ElevenRequiredFields = {}
               /\ data.rows[j].TestName = source.rows[data.rows[j].index + 1].name
               /\ data.rows[j].Year = source.rows[data.rows[j].index + 1].year
        /\ \A j \in 1..(Len(data.rows) - 1) :
               data.rows[j].index < data.rows[j + 1].index

C7_Witness ==
    /\ status # "init"
    /\ source.error = "none"
    /\ Len(source.rows) = 2
    /\ source.rows[1].na = {"Data.Purpose"}
    /\ source.rows[2].na = {}
    /\ Len(data.rows) = 1
    /\ data.rows[1].index = 1

(* a step of the session that is a run of the script *)
IsRun == source' = source

(* C8: a run shows the acknowledgment only if it is the run of a submit:  *)
(* the form was on the page, and neither the section nor a filter changed. *)
(* That run shows the rating, the name iff it is not empty, the comment    *)
(* iff it is not empty.                                                    *)
C8_FeedbackEcho ==
    [][IsRun =>
          /\ ("feedback_success" \in out') =>
                 /\ submitted'
                 /\ status = "ok" /\ section = "Feedback"
                 /\ "feedback_form" \in out
                 /\ status' = "ok" /\ section' = "Feedback"
                 /\ countries' = countries
                 /\ year_range' = year_range
                 /\ selected_categories' = selected_categories
                 /\ search' = search
          /\ submitted' =>
                 /\ {"feedback_success", "feedback_rating"} \subseteq out'
                 /\ ("feedback_name" \in out') <=> (name' # "")
                 /\ ("feedback_comment" \in out') <=> (comments' # "")
          /\ ~submitted' =>
                 {"feedback_success", "feedback_rating", "feedback_name",
                  "feedback_comment"} \cap out' = {}
      ]_vars

C8_Witness ==
    /\ submitted
    /\ rating = 4
    /\ name = ""
    /\ comments = "Great tool"
    /\ {"feedback_success", "feedback_rating", "feedback_comment"} \subseteq out
    /\ "feedback_name" \notin out

(* C9: over a view of n >= 1 rows, the first Details table has min(5, n)   *)
(* rows, the deepest ones, an earlier row before a later one of the same   *)
(* depth; the second has the first min(10, n) rows of the view.            *)
C9_DetailsTables ==
    (status = "ok" /\ section = "Details" /\ Len(filtered_data) >= 1) =>
        LET n == Len(filtered_data)
        IN  /\ Len(top5) = Min(5, n)
            /\ Cardinality(Indexes(top5)) = Min(5, n)
            /\ Indexes(top5) \subseteq Indexes(filtered_data)
            /\ \A i, j \in 1..n :
                   (/\ filtered_data[i].index \in Indexes(top5)
                    /\ filtered_data[j].index \notin Indexes(top5))
                       => \/ filtered_data[i].Depth > filtered_data[j].Depth
                          \/ /\ filtered_data[i].Depth = filtered_data[j].Depth
                             /\ i < j
            /\ \A k \in 1..Len(top5) :
                   \E i \in 1..n :
                       /\ filtered_data[i].index = top5[k].index
                       /\ filtered_data[i].Depth = top5[k].Depth
            /\ Len(preview) = Min(10, n)
            /\ \A k \in 1..Len(preview) :
                   /\ preview[k].index = filtered_data[k].index
                   /\ preview[k].TestName = filtered_data[k].TestName

C9_Witness ==
    /\ status = "ok"
    /\ section = "Details"
    /\ Len(filtered_data) > 10
    /\ Len(preview) = 10
    /\ Len(top5) = 5
    /\ \E i, j \in 1..Len(filtered_data) :
           /\ i < j
           /\ filtered_data[i].Depth = filtered_data[j].Depth
           /\ filtered_data[i].index \in Indexes(top5)
           /\ filtered_data[j].index \notin Indexes(top5)
    /\ \E i, j \in 1..Len(filtered_data) :
           /\ j < i
           /\ filtered_data[i].Depth > filtered_data[j].Depth
           /\ filtered_data[i].index \in Indexes(top5)
           /\ filtered_data[j].index \notin Indexes(top5)

(* the view the criteria select from the rows *)
ViewOf(rows, cs, yr, cats, s) ==
    SelectSeq(rows, LAMBDA r : /\ Matches(r, cs, yr, cats)
                               /\ (s = <<>> \/ re_search(s, r.TestName)))

(* C10: once loaded the Dataset never changes; the view of every run is    *)
(* the filter of that Dataset under the criteria of that run alone; a      *)
(* section switch or a feedback submission leaves the criteria alone.      *)
C10_DatasetFrame ==
    [][/\ status # "init" => data' = data
       /\ (IsRun /\ status' = "ok") =>
              filtered_data' = ViewOf((IF status = "init" THEN data' ELSE data).rows,
                                      countries', year_range',
                                      selected_categories', search')
       /\ (status # "init" /\ (section' # section \/ submitted')) =>
              /\ countries' = countries
              /\ year_range' = year_range
              /\ selected_categories' = selected_categories
              /\ search' = search
      ]_vars

C10_Witness ==
    /\ status = "ok"
    /\ source.error = "missing"
    /\ section = "Feedback"
    /\ submitted
    /\ countries = {"USSR"}
    /\ search # <<>>
    /\ Len(filtered_data) > 0

====
